---- MODULE Spec2Model ----
(***************************************************************************)
(* piTelex i-Telex server (src/txDevITelexSrv.py): the constructor, the    *)
(* Call Acceptor thread, the Session Handler threads, the TNS              *)
(* registration / self-test Scheduler thread and the device interface      *)
(* (read, write, exit), as one state machine.  Every thread has a program  *)
(* counter named after the source line it is about to execute.             *)
(***************************************************************************)
EXTENDS Integers, Sequences, FiniteSets, TLC

\* ------------------------------------------------------------ bounds
\* What happens at most in one behaviour, counted together: connections from
\* outside, self-tests (where the specification counts them), failed
\* registrations and characters written
MaxEvents == 2

\* The longest answer of the TNS that is tried
MaxAnswer == 6

\* ------------------------------------------------------------ program constants
\* SERVER.listen(2)
ListenBacklog == 2
\* test_connection_fail == 6: re-register at once
BreakAt == 6
\* A variant with a cycle too short for six more failures.
ForRangeShort == BreakAt - 1
\* range(180): self-tests per registration cycle
ForRange == 180
\* test_connection_fail >= 12: stop self-testing
CeaseAt == 12
\* the "suspended" sentinel
Suspended == 666
\* 0xffff: the upper limit of the TNS pin
MaxPin == 65535
\* the upper 16 bits of 0xffffffff, the upper limit of the own number
MaxNumberHi == 65535
\* line 35: params.get('port', 2342)
DefaultPort == 2342

\* A Python int beyond the 31 bits of a model integer is kept as two 16-bit
\* halves: Wide(hi, lo) is hi * 2^16 + lo, with lo in 0..65535.
Wide(hi, lo) == [hi |-> hi, lo |-> lo]

\* Python's None; an Optional value x is <<x>>
None == <<>>

\*                        Code Len  Data ...
selftest_packet == <<8, 4, 222, 202, 251, 173>>

\* session markers and the one payload character of the model
ESC_A == "ESC_A"
ESC_Z == "ESC_Z"
Chr == "c"

\* str(i) for an int i >= 0, as a sequence of characters
RECURSIVE Str(_)
Str(n) ==
    LET digit == <<"0", "1", "2", "3", "4", "5", "6", "7", "8", "9">>[(n % 10) + 1]
    IN IF n < 10 THEN <<digit>> ELSE Str(n \div 10) \o <<digit>>

\* ".".join(parts), each part a sequence of characters
RECURSIVE Join(_)
Join(parts) ==
    IF parts = <<>> THEN <<>>
    ELSE IF Len(parts) = 1 THEN parts[1]
    ELSE parts[1] \o <<".">> \o Join(Tail(parts))

\* line 295: ".".join([str(i) for i in octets])
Dotted(octets) == Join([k \in 1..Len(octets) |-> Str(octets[k])])

\* addresses: what the TNS may report as the own address, and a foreign peer
Addr1 == Dotted(<<1, 2, 3, 4>>)
Addr2 == Dotted(<<5, 6, 7, 8>>)
Foreign == Dotted(<<9, 9, 9, 9>>)

\* answers of the TNS server to client_update (s.recv(1024))
TnsResponses == {<<2, 4, 1, 2, 3, 4>>, <<2, 4, 5, 6, 7, 8>>, <<2, 5, 1, 2, 3, 4>>,
                 <<3, 4, 1, 2, 3, 4>>, <<>>}

\* constructor arguments: int(params.get('number', 0)) and
\* params.get('tns-pin', None). 12345678 is 0x00BC614E.
Number1 == Wide(188, 24910)
Pin1 == <<4321>>
ValidParams == [number |-> Number1, tns_pin |-> Pin1, port |-> DefaultPort]
Params ==
    {ValidParams,
     [ValidParams EXCEPT !.number = Wide(0, 0)],
     [ValidParams EXCEPT !.number = Wide(MaxNumberHi + 1, 0)],
     [ValidParams EXCEPT !.tns_pin = <<0 - 1>>],
     [ValidParams EXCEPT !.tns_pin = <<MaxPin + 1>>],
     [ValidParams EXCEPT !.tns_pin = None]}

\* what a peer outside sends first: the self-test packet, or something else
PeerSent == {"packet", "short"}

\* the bytes a recv(128) returns for what the peer has sent: the self-test
\* packet, its first five bytes, or nothing before the peer closed
Bytes(sent) ==
    CASE sent = "packet" -> selftest_packet
      [] sent = "short" -> <<8, 4, 222, 202, 251>>
      [] OTHER -> <<>>

VARIABLES
    params,                 \* constructor arguments
    limits,                 \* what the environment of this specification does
    budget,                 \* how many more counted events may happen
    ipc,                    \* constructor: next line of __init__
    number, tns_pin,        \* self._number, self._tns_pin
    run, u_run,             \* self.run, self._run
    SERVER,                 \* listening socket: "none", "listening", "closed"
    attrs,                  \* the attributes lines 63..70 have created so far
    clients,                \* self.clients: socket id -> peer address
    tx_buffer, rx_buffer,   \* self._tx_buffer, self._rx_buffer
    connected,              \* relay flag cleared by disconnect_client()
    update_tns_fail, test_connection_fail,
    ip_address,             \* self.ip_address: None or <<text>>
    selftest_event,         \* the Event's flag
    backlog,                \* connections completed by the kernel, not yet accepted
    open,                   \* ids of the accepted sockets that are not closed
    apc, client, data,      \* Acceptor: line, the accepted connection, recv() result
    hpc,                    \* Session Handler threads: socket id -> line
    spc, i, ret,            \* Scheduler: line, for-loop counter, test_connection's ret
    tns_answer,             \* the address update_tns_record() has just decoded, or None
    qry,                    \* the last request update_tns_record() built
    ev_for, ret_for,        \* whose connection set the event / gave ret its value
    markers                 \* the last session marker pushed to _rx_buffer

vars == <<params, limits, budget, ipc, number, tns_pin, run, u_run, SERVER, attrs,
          clients, tx_buffer, rx_buffer, connected, update_tns_fail,
          test_connection_fail, ip_address, selftest_event, backlog, open, apc,
          client, data, hpc, spc, i, ret, tns_answer, qry, ev_for, ret_for, markers>>

cfg == <<params, limits, number, tns_pin, run>>
ctor == <<ipc, attrs>>
shut == <<u_run, SERVER>>
dev == <<tx_buffer, rx_buffer, connected, markers>>
reg == <<clients, hpc>>
net == <<backlog, open>>
acc == <<apc, client, data>>
ev == <<selftest_event, ev_for>>
sched == <<spc, i, ret, ret_for, tns_answer, qry, update_tns_fail,
           test_connection_fail>>

\* ------------------------------------------------------------ helpers
\* A connection: the socket's id, the peer address, and where it comes from:
\* "ext" a peer outside, "cur" the latest self-test, "old" an earlier self-test.
\* sent is what the peer has sent so far: "no" nothing yet, "packet" the
\* self-test packet, "short" a part of it, "eof" closed unsent; for a peer
\* outside it is settled when the Acceptor looks at the connection. The
\* Acceptor notes on it what it did
\* with the connection: accepted during a session, found to come from the own
\* address, found the line busy, how often it set the event, sent the reject,
\* closed the socket, admitted the call.
NoClient == [id |-> 0, addr |-> <<>>, from |-> "ext", sent |-> "no",
             during |-> FALSE, matched |-> FALSE, busy |-> FALSE, evsets |-> 0,
             rejected |-> FALSE, closed |-> FALSE, admitted |-> FALSE]

Conn(id, addr, from) == [NoClient EXCEPT !.id = id, !.addr = addr, !.from = from]

\* dict without key k
Del(f, k) == [x \in DOMAIN f \ {k} |-> f[x]]

\* dict with f[k] = v
Put(f, k, v) == [x \in DOMAIN f \cup {k} |-> IF x = k THEN v ELSE f[x]]

Empty == [x \in {} |-> None]

\* ids of the sockets that exist: queued, accepted and open, or registered
Live ==
    {backlog[k].id : k \in 1..Len(backlog)} \cup open \cup DOMAIN clients
        \cup DOMAIN hpc \cup {client.id}

\* the id of a new socket: the lowest one not in use
FreshId == CHOOSE n \in 1..(Cardinality(Live) + 1) :
               n \notin Live /\ \A m \in 1..(n - 1) : m \in Live

\* ------------------------------------------------------------ __init__
\* the state on entry to __init__, for constructor arguments p
Start(p, lim) ==
    /\ params = p
    /\ limits = lim
    /\ budget = MaxEvents
    /\ ipc = "l37"
    /\ number = None /\ tns_pin = None
    /\ run = FALSE /\ u_run = TRUE
    /\ SERVER = "none"
    /\ attrs = {}
    /\ clients = Empty
    /\ tx_buffer = <<>> /\ rx_buffer = <<>>
    /\ connected = FALSE
    /\ update_tns_fail = 0 /\ test_connection_fail = 0
    /\ tns_answer = None
    /\ qry = <<>>
    /\ ip_address = None
    /\ selftest_event = FALSE
    /\ backlog = <<>>
    /\ open = {}
    /\ apc = "off" /\ client = NoClient /\ data = <<>>
    /\ hpc = Empty
    /\ spc = "off" /\ i = 0 /\ ret = FALSE
    /\ ev_for = "none" /\ ret_for = "none"
    /\ markers = "none"

\* Any configuration; self-tests count as events; the TNS answers anything.
Init == \E p \in Params : Start(p, [probes |-> 1, tns |-> TnsResponses])

\* line 38: "self._number <= 0 or self._number > 0xffffffff"
NumberOutOfRange(n) == n.hi < 0 \/ (n.hi = 0 /\ n.lo = 0) \/ n.hi > MaxNumberHi

\* lines 37-42: the own number, None unless inside 1..0xffffffff
ValidNumber(n) == IF NumberOutOfRange(n) THEN None ELSE <<n>>

\* line 45: "self._tns_pin < 0 or self._tns_pin > 0xffff" on an int
PinOutOfRange(p) == p < 0 \/ p > MaxPin

\* lines 30-58: validate the configuration, create and bind the listening socket.
\* Comparing None with 0 (line 45) raises TypeError: the constructor ends there.
InitConfig ==
    /\ ipc = "l37"
    /\ IF params.tns_pin = None
         THEN /\ ipc' = "raised"
              /\ number' = ValidNumber(params.number)
              /\ UNCHANGED <<tns_pin, run, SERVER>>
         ELSE /\ IF PinOutOfRange(params.tns_pin[1])
                   THEN number' = None /\ tns_pin' = None
                   ELSE number' = ValidNumber(params.number) /\ tns_pin' = params.tns_pin
              /\ run' = TRUE
              /\ SERVER' = "listening"
              /\ ipc' = "l60"
    /\ UNCHANGED <<params, limits, budget, u_run, attrs, dev, reg, net, acc, ev, sched,
                   ip_address>>

\* line 60: start the Acceptor thread
InitStartAcceptor ==
    /\ ipc = "l60"
    /\ ipc' = "l63"
    /\ apc' = "l105"
    /\ UNCHANGED <<cfg, budget, attrs, shut, dev, reg, net, client, data, ev, sched,
                   ip_address>>

\* lines 63-64, 67, 70: create the counters, ip_address, selftest_event
InitAttr ==
    /\ \/ ipc = "l63" /\ ipc' = "l67" /\ attrs' = attrs \cup {"counters"}
       \/ ipc = "l67" /\ ipc' = "l70" /\ attrs' = attrs \cup {"ip_address"}
       \/ ipc = "l70" /\ ipc' = "l72" /\ attrs' = attrs \cup {"selftest_event"}
    /\ UNCHANGED <<cfg, budget, shut, dev, reg, net, acc, ev, sched, ip_address>>

\* line 72: "if self._number"
SchedulerWanted == number # None

\* lines 72-75: start the Scheduler thread if the own number is given
InitStartScheduler ==
    /\ ipc = "l72"
    /\ ipc' = "done"
    /\ spc' = IF SchedulerWanted THEN "l178" ELSE "off"
    /\ UNCHANGED <<cfg, budget, attrs, shut, dev, reg, net, acc, ev, ip_address,
                   i, ret, ret_for, update_tns_fail, qry, tns_answer, test_connection_fail>>

\* ------------------------------------------------------------ environment
\* A peer connects to the listening port: the kernel completes the handshake
\* and queues the connection (at most ListenBacklog of them wait for accept()).
PeerConnect ==
    /\ SERVER = "listening"
    /\ budget > 0
    /\ budget' = budget - 1
    /\ Len(backlog) < ListenBacklog
    /\ \E addr \in {Addr1, Foreign} :
          backlog' = Append(backlog, Conn(FreshId, addr, "ext"))
    /\ UNCHANGED <<cfg, ctor, shut, dev, reg, open, acc, ev, sched, ip_address>>

\* ------------------------------------------------------------ device interface
\* TelexITelexCommon.disconnect_client(): ask the relay of the active session to end
disconnect_client == connected' = FALSE

\* lines 84-86
read ==
    /\ ipc = "done"
    /\ rx_buffer # <<>>
    /\ rx_buffer' = Tail(rx_buffer)
    /\ UNCHANGED <<cfg, budget, ctor, shut, tx_buffer, connected, markers, reg, net,
                   acc, ev, sched, ip_address>>

\* lines 90-99; a is one character or a two-character escape sequence
write(a, source) ==
    /\ ipc = "done"
    /\ IF a \in {ESC_A, ESC_Z}
         THEN /\ IF a = ESC_Z THEN disconnect_client ELSE UNCHANGED connected
              /\ UNCHANGED <<tx_buffer, budget>>
         ELSE IF source \in {"<", ">"}
         THEN UNCHANGED <<tx_buffer, connected, budget>>
         ELSE /\ budget > 0
              /\ budget' = budget - 1
              /\ tx_buffer' = Append(tx_buffer, a)
              /\ UNCHANGED connected
    /\ UNCHANGED <<cfg, ctor, shut, rx_buffer, markers, reg, net, acc, ev, sched,
                   ip_address>>

Write == \E a \in {Chr, ESC_A, ESC_Z}, source \in {"<", "#"} : write(a, source)

\* lines 77-80
exit ==
    /\ ipc = "done"
    /\ u_run
    /\ disconnect_client
    /\ u_run' = FALSE
    /\ SERVER' = "closed"
    /\ UNCHANGED <<cfg, budget, ctor, tx_buffer, rx_buffer, markers, reg, net, acc, ev,
                   sched, ip_address>>

\* ------------------------------------------------------------ Call Acceptor
\* TelexITelexCommon.send_reject(): write the "line busy" packet to the socket
send_reject(c) == [c EXCEPT !.rejected = TRUE]

\* line 105: "while self.run"; client and data of the last round are dead
AccWhile ==
    /\ apc = "l105"
    /\ apc' = IF run THEN "l106" ELSE "done"
    /\ client' = NoClient
    /\ data' = <<>>
    /\ UNCHANGED <<cfg, budget, ctor, shut, dev, reg, net, ev, sched, ip_address>>

\* line 106: accept() returns the oldest queued connection; on a closed
\* listening socket it raises OSError, which ends the thread
AccAccept ==
    /\ apc = "l106"
    /\ IF SERVER = "closed"
         THEN /\ apc' = "dead"
              /\ UNCHANGED <<backlog, open, client>>
         ELSE /\ backlog # <<>>
              /\ client' = [Head(backlog) EXCEPT !.during = DOMAIN clients # {}]
              /\ backlog' = Tail(backlog)
              /\ open' = open \cup {Head(backlog).id}
              /\ apc' = "l108"
    /\ UNCHANGED <<cfg, budget, ctor, shut, dev, reg, data, ev, sched, ip_address>>

\* A variant that takes every peer for the own address once one is known.
IsOwnAddressAny(c) == ip_address # None

\* line 108: "client_address[0] == self.ip_address"
IsOwnAddress(c) == ip_address # None /\ c.addr = ip_address[1]

\* what the peer of connection c sends
Sends(c) == IF c.from = "ext" THEN PeerSent ELSE {c.sent}

\* line 108: reading self.ip_address before line 67 created it raises
\* AttributeError, which ends the thread
AccClassify ==
    /\ apc = "l108"
    /\ IF "ip_address" \notin attrs
         THEN apc' = "dead" /\ UNCHANGED client
         ELSE \E b \in Sends(client) :
                IF IsOwnAddress(client)
                  THEN /\ apc' = "l109"
                       /\ client' = [client EXCEPT !.matched = TRUE, !.sent = b]
                  ELSE /\ apc' = "l116"
                       /\ client' = [client EXCEPT !.sent = b]
    /\ UNCHANGED <<cfg, budget, ctor, shut, dev, reg, net, data, ev, sched, ip_address>>

\* line 109: recv(128) blocks until the peer has sent or closed and returns
\* what it sent; a connection reset by a peer outside raises, which ends the
\* thread
AccRecv ==
    /\ apc = "l109"
    /\ client.sent # "no"
    /\ \/ apc' = "l110" /\ data' = Bytes(client.sent)
       \/ client.from = "ext" /\ apc' = "dead" /\ UNCHANGED data
    /\ UNCHANGED <<cfg, budget, ctor, shut, dev, reg, net, client, ev, sched, ip_address>>

\* A variant that compares against the packet with its two header bytes swapped.
IsSelftestSwapped(d) == d = <<4, 8, 222, 202, 251, 173>>

\* line 110: "data == selftest_packet"
IsSelftest(d) == d = selftest_packet

\* lines 110-114: signal a recognised self-test, close, continue
AccMute ==
    /\ apc = "l110"
    /\ IF IsSelftest(data)
         THEN IF "selftest_event" \notin attrs
                THEN apc' = "dead" /\ UNCHANGED <<ev, client, open>>
                ELSE /\ selftest_event' = TRUE
                     /\ ev_for' = client.from
                     /\ client' = [client EXCEPT !.evsets = @ + 1, !.closed = TRUE]
                     /\ open' = open \ {client.id}
                     /\ apc' = "l105"
         ELSE /\ client' = [client EXCEPT !.closed = TRUE]
              /\ open' = open \ {client.id}
              /\ apc' = "l105"
              /\ UNCHANGED ev
    /\ UNCHANGED <<cfg, budget, ctor, shut, dev, reg, backlog, data, sched, ip_address>>

\* A variant of the check of line 116 that never finds the line busy.
LineBusyNever == FALSE

\* line 116: "if self.clients"
LineBusy == DOMAIN clients # {}

\* line 116
AccBusy ==
    /\ apc = "l116"
    /\ IF LineBusy
         THEN apc' = "l117" /\ client' = [client EXCEPT !.busy = TRUE]
         ELSE apc' = "l120" /\ UNCHANGED client
    /\ UNCHANGED <<cfg, budget, ctor, shut, dev, reg, net, data, ev, sched, ip_address>>

\* lines 117-119: reject and close the excess caller; a failing send raises,
\* which ends the thread with the socket still open
AccReject ==
    /\ apc = "l117"
    /\ \/ /\ client' = [send_reject(client) EXCEPT !.closed = TRUE]
          /\ open' = open \ {client.id}
          /\ apc' = "l105"
       \/ /\ apc' = "dead"
          /\ UNCHANGED <<client, open>>
    /\ UNCHANGED <<cfg, budget, ctor, shut, dev, reg, backlog, data, ev, sched,
                   ip_address>>

\* lines 120-122: register the socket, reset the tx buffer, start its handler
AccAdmit ==
    /\ apc = "l120"
    /\ clients' = Put(clients, client.id, client.addr)
    /\ tx_buffer' = <<>>
    /\ hpc' = Put(hpc, client.id, "l128")
    /\ client' = [client EXCEPT !.admitted = TRUE]
    /\ apc' = "l105"
    /\ UNCHANGED <<cfg, budget, ctor, shut, rx_buffer, connected, markers, net, data, ev,
                   sched, ip_address>>

\* ------------------------------------------------------------ Session Handler
\* line 128: push the session-start marker
HStart(s) ==
    /\ hpc[s] = "l128"
    /\ rx_buffer' = Append(rx_buffer, ESC_A)
    /\ markers' = ESC_A
    /\ hpc' = [hpc EXCEPT ![s] = "l130"]
    /\ UNCHANGED <<cfg, budget, ctor, shut, clients, tx_buffer, connected, net, acc, ev,
                   sched, ip_address>>

\* line 130, TelexITelexCommon.process_connection(): the relay starts ...
HRelayBegin(s) ==
    /\ hpc[s] = "l130"
    /\ connected' = TRUE
    /\ hpc' = [hpc EXCEPT ![s] = "relay"]
    /\ UNCHANGED <<cfg, budget, ctor, shut, clients, tx_buffer, rx_buffer, markers, net,
                   acc, ev, sched, ip_address>>

\* ... sends what write() queued ...
HRelayTx(s) ==
    /\ hpc[s] = "relay"
    /\ connected
    /\ tx_buffer # <<>>
    /\ tx_buffer' = Tail(tx_buffer)
    /\ UNCHANGED <<cfg, budget, ctor, shut, reg, rx_buffer, connected, markers, net,
                   acc, ev, sched, ip_address>>

\* ... and returns when the peer closed or disconnect_client() was called,
\* or raises
HRelayEnd(s) ==
    /\ hpc[s] = "relay"
    /\ \E next \in {"l136", "l133"} : hpc' = [hpc EXCEPT ![s] = next]
    /\ UNCHANGED <<cfg, budget, ctor, shut, clients, dev, net, acc, ev, sched,
                   ip_address>>

\* A variant in which the lines after the except clause are part of the try
\* block, so that an exception ends the thread without them.
HExceptSkipsCleanup(s) ==
    /\ hpc[s] = "l133"
    /\ disconnect_client
    /\ hpc' = Del(hpc, s)
    /\ UNCHANGED <<cfg, budget, ctor, shut, clients, tx_buffer, rx_buffer, markers, net,
                   acc, ev, sched, ip_address>>

\* lines 132-134: log the error, disconnect_client()
HExcept(s) ==
    /\ hpc[s] = "l133"
    /\ disconnect_client
    /\ hpc' = [hpc EXCEPT ![s] = "l136"]
    /\ UNCHANGED <<cfg, budget, ctor, shut, clients, tx_buffer, rx_buffer, markers, net,
                   acc, ev, sched, ip_address>>

\* A variant that deletes the registry entry before the end marker is pushed.
HCloseFreesSlot(s) ==
    /\ hpc[s] = "l136"
    /\ open' = open \ {s}
    /\ clients' = Del(clients, s)
    /\ hpc' = [hpc EXCEPT ![s] = "l137"]
    /\ UNCHANGED <<cfg, budget, ctor, shut, dev, backlog, acc, ev, sched, ip_address>>

\* line 136: s.close()
HClose(s) ==
    /\ hpc[s] = "l136"
    /\ open' = open \ {s}
    /\ hpc' = [hpc EXCEPT ![s] = "l137"]
    /\ UNCHANGED <<cfg, budget, ctor, shut, clients, dev, backlog, acc, ev, sched,
                   ip_address>>

\* line 137: push the session-end marker
HEndMarker(s) ==
    /\ hpc[s] = "l137"
    /\ rx_buffer' = Append(rx_buffer, ESC_Z)
    /\ markers' = ESC_Z
    /\ hpc' = [hpc EXCEPT ![s] = "l138"]
    /\ UNCHANGED <<cfg, budget, ctor, shut, clients, tx_buffer, connected, net, acc, ev,
                   sched, ip_address>>

\* line 138: "del self.clients[s]"; the thread ends
HDel(s) ==
    /\ hpc[s] = "l138"
    /\ clients' = Del(clients, s)
    /\ hpc' = Del(hpc, s)
    /\ UNCHANGED <<cfg, budget, ctor, shut, dev, net, acc, ev, sched, ip_address>>

Handler ==
    \E s \in DOMAIN hpc :
        \/ HStart(s) \/ HRelayBegin(s) \/ HRelayTx(s) \/ HRelayEnd(s)
        \/ HExcept(s) \/ HClose(s) \/ HEndMarker(s) \/ HDel(s)

\* ------------------------------------------------------------ TNS Client
\* data[a:b] of Python, 0-based and clipped to the length
Slice(d, a, b) == SubSeq(d, a + 1, IF b < Len(d) THEN b ELSE Len(d))

\* A variant without the check of the length byte (line 292).
DecodeAnyLength(d) ==
    IF Len(d) < 1 THEN [ok |-> FALSE, ip |-> None]
    ELSE IF d[1] = 2
    THEN [ok |-> TRUE, ip |-> <<Dotted(Slice(d, 2, 6))>>]
    ELSE [ok |-> FALSE, ip |-> None]

\* A variant that stores the address before it checks the length byte.
DecodeStoresEarly(d) ==
    IF Len(d) < 1 THEN [ok |-> FALSE, ip |-> None]
    ELSE IF d[1] = 2
    THEN [ok |-> Len(d) >= 2 /\ d[2] = 4, ip |-> <<Dotted(Slice(d, 2, 6))>>]
    ELSE [ok |-> FALSE, ip |-> None]

\* lines 291-306 of update_tns_record(): the outcome for the received bytes,
\* ok the value returned, ip the address stored in self.ip_address (line 296)
\* or None if none is stored; every exception (IndexError on a short answer
\* included) is caught
Decode(d) ==
    IF Len(d) < 1 THEN [ok |-> FALSE, ip |-> None]
    ELSE IF d[1] = 2
    THEN IF Len(d) < 2 \/ d[2] # 4
           THEN [ok |-> FALSE, ip |-> None]
           ELSE [ok |-> TRUE, ip |-> <<Dotted(Slice(d, 2, 6))>>]
    ELSE [ok |-> FALSE, ip |-> None]

\* ------------------------------------------------------------ Scheduler
\* line 178: "while self.run"
SchedWhile ==
    /\ spc = "l178"
    /\ spc' = IF run THEN "l181" ELSE "done"
    /\ UNCHANGED <<cfg, budget, ctor, shut, dev, reg, net, acc, ev, ip_address,
                   i, ret, ret_for, update_tns_fail, qry, tns_answer, test_connection_fail>>

\* A variant of lines 184-185 that leaves the failure count alone.
ResumeNever(fail) == fail

\* line 184-186: a successful update resumes suspended self-testing
Resume(fail) == IF fail = Suspended THEN 0 ELSE fail

\* A variant with the bytes in big-endian order.
BigEndian2(n) == <<n \div 256, n % 256>>

\* lines 283, 286: to_bytes(length=2, byteorder="little")
LittleEndian2(n) == <<n % 256, n \div 256>>

\* line 280: to_bytes(length=4, byteorder="little") of the own number
LittleEndian4(w) == LittleEndian2(w.lo) \o LittleEndian2(w.hi)

\* lines 278-287: the client_update packet
Request(num, pin, port) ==
    <<1, 8>> \o LittleEndian4(num) \o LittleEndian2(pin) \o LittleEndian2(port)

\* A variant of lines 181-190 that forgets to reset the count on success.
UpdateTallyKeeps(fail, ok) == IF ok THEN fail ELSE fail + 1

\* lines 181-190: count failed updates, reset on success
UpdateTally(fail, ok) == IF ok THEN 0 ELSE fail + 1

\* lines 181-190: one registration attempt (update_tns_record, lines 271-306)
\* and its bookkeeping; a socket error or timeout leaves no answer
SchedUpdate ==
    /\ spc = "l181"
    /\ qry' = Request(number[1], tns_pin[1], params.port)
    /\ \E d \in limits.tns :
          LET r == Decode(d) IN
          /\ update_tns_fail' = UpdateTally(update_tns_fail, r.ok)
          /\ ip_address' = IF r.ip # None THEN r.ip ELSE ip_address
          /\ IF r.ok
               THEN /\ tns_answer' = r.ip
                    /\ test_connection_fail' = Resume(test_connection_fail)
                    /\ UNCHANGED budget
               ELSE /\ budget > 0
                    /\ budget' = budget - 1
                    /\ tns_answer' = None
                    /\ UNCHANGED test_connection_fail
    /\ spc' = "l194"
    /\ UNCHANGED <<cfg, ctor, shut, dev, reg, net, acc, ev, i, ret, ret_for>>

\* A variant of the check of line 194 that takes every address for known.
AddressUnknownNever == FALSE

\* line 194: "if not self.ip_address"
AddressUnknown == ip_address = None \/ ip_address[1] = <<>>

\* lines 194-199: without an address sleep an hour and retry, else start the
\* for loop (the answer of update_tns_record is dead)
SchedAddress ==
    /\ spc = "l194"
    /\ IF AddressUnknown
         THEN spc' = "l178" /\ UNCHANGED i
         ELSE spc' = "l199" /\ i' = 0
    /\ tns_answer' = None
    /\ UNCHANGED <<cfg, budget, ctor, shut, dev, reg, net, acc, ev, ip_address,
                   ret, ret_for, update_tns_fail, qry, test_connection_fail>>

\* lines 199-202: next iteration of "for _ in range(180)" and its sleep(20),
\* or the end of the loop
SchedFor ==
    /\ spc = "l199"
    /\ IF i < ForRange
         THEN spc' = "l206" /\ i' = i + 1
         ELSE spc' = "l178" /\ UNCHANGED i
    /\ UNCHANGED <<cfg, budget, ctor, shut, dev, reg, net, acc, ev, ip_address,
                   ret, ret_for, update_tns_fail, qry, tns_answer, test_connection_fail>>

\* line 206: "self.test_connection_fail >= 12"
Ceased(fail) == fail >= CeaseAt

\* lines 206-213: after 2*6 failures latch the sentinel and skip the self-test
SchedCease ==
    /\ spc = "l206"
    /\ IF Ceased(test_connection_fail)
         THEN spc' = "l199" /\ test_connection_fail' = Suspended
         ELSE spc' = "l244" /\ UNCHANGED test_connection_fail
    /\ UNCHANGED <<cfg, budget, ctor, shut, dev, reg, net, acc, ev, ip_address,
                   i, ret, ret_for, update_tns_fail, qry, tns_answer>>

\* the connection of the running self-test, wherever it is, gets d to read
Deliver(c, d) == IF c.from = "cur" THEN [c EXCEPT !.sent = d] ELSE c

\* a new self-test starts: the connection of the one before is an old one
Age(c) == IF c.from = "cur" THEN [c EXCEPT !.from = "old"] ELSE c

\* lines 242-244 of test_connection(): connect to the own address. The
\* connection is queued at the listener if there is room, with the own address
\* as its peer address (one that a NAT rewrites is a PeerConnect from a
\* foreign address). A refused or timed-out connect raises: return False
\* (lines 256-258).
TcConnect ==
    /\ spc = "l244"
    /\ budget >= limits.probes
    /\ budget' = budget - limits.probes
    /\ client' = Age(client)
    /\ ev_for' = IF ev_for = "cur" THEN "old" ELSE ev_for
    /\ LET aged == [k \in 1..Len(backlog) |-> Age(backlog[k])] IN
       \/ /\ SERVER = "listening"
          /\ Len(backlog) < ListenBacklog
          /\ backlog' = Append(aged, Conn(FreshId, ip_address[1], "cur"))
          /\ spc' = "l248"
          /\ UNCHANGED ret
       \/ /\ ret' = FALSE
          /\ spc' = "l219"
          /\ backlog' = aged
    /\ UNCHANGED <<cfg, ctor, shut, dev, reg, open, apc, data, selftest_event,
                   ip_address, i, ret_for, update_tns_fail, qry, tns_answer, test_connection_fail>>

\* line 248: selftest_event.clear()
TcClear ==
    /\ spc = "l248"
    /\ selftest_event' = FALSE
    /\ ev_for' = "none"
    /\ spc' = "l249"
    /\ UNCHANGED <<cfg, budget, ctor, shut, dev, reg, net, acc, ip_address,
                   i, ret, ret_for, update_tns_fail, qry, tns_answer, test_connection_fail>>

\* lines 249-250: sendall(selftest_packet) and close; a failing send raises,
\* the socket is closed unsent: return False (lines 256-258)
TcSend ==
    /\ spc = "l249"
    /\ \E sent \in {"packet", "eof"} :
          /\ backlog' = [k \in 1..Len(backlog) |-> Deliver(backlog[k], sent)]
          /\ client' = Deliver(client, sent)
          /\ IF sent = "packet" THEN spc' = "l252" /\ UNCHANGED ret
                                ELSE spc' = "l219" /\ ret' = FALSE
    /\ UNCHANGED <<cfg, budget, ctor, shut, dev, reg, open, apc, data, ev, ip_address,
                   i, ret_for, update_tns_fail, qry, tns_answer, test_connection_fail>>

\* line 252: wait(timeout=1.0) returns the flag: True as soon as it is set,
\* False when the second has passed
TcWait ==
    /\ spc = "l252"
    /\ ret' = selftest_event
    /\ ret_for' = IF selftest_event THEN ev_for ELSE "none"
    /\ spc' = "l253"
    /\ UNCHANGED <<cfg, budget, ctor, shut, dev, reg, net, acc, ev, ip_address,
                   i, update_tns_fail, qry, tns_answer, test_connection_fail>>

\* lines 253-254: clear the event again, return ret
TcReturn ==
    /\ spc = "l253"
    /\ selftest_event' = FALSE
    /\ ev_for' = "none"
    /\ spc' = "l219"
    /\ UNCHANGED <<cfg, budget, ctor, shut, dev, reg, net, acc, ip_address,
                   i, ret, ret_for, update_tns_fail, qry, tns_answer, test_connection_fail>>

\* lines 219-224: count failures, reset on success
Tally(fail, ok) == IF ok THEN 0 ELSE fail + 1

\* A variant of the check of line 226 that breaks one failure later.
UpdateNowLate(fail) == fail = BreakAt + 1

\* line 226: "self.test_connection_fail == 6"
UpdateNow(fail) == fail = BreakAt

\* lines 219-228: tally the self-test; after six failed tries leave the for
\* loop to update the TNS record immediately (ret is dead)
SchedTally ==
    /\ spc = "l219"
    /\ test_connection_fail' = Tally(test_connection_fail, ret)
    /\ spc' = IF UpdateNow(test_connection_fail') THEN "l178" ELSE "l199"
    /\ ret' = FALSE
    /\ ret_for' = "none"
    /\ UNCHANGED <<cfg, budget, ctor, shut, dev, reg, net, acc, ev, ip_address,
                   i, update_tns_fail, qry, tns_answer>>

\* ------------------------------------------------------------ specifications
Constructor == InitConfig \/ InitStartAcceptor \/ InitAttr \/ InitStartScheduler

Acceptor ==
    \/ AccWhile \/ AccAccept \/ AccClassify \/ AccRecv \/ AccMute
    \/ AccBusy \/ AccReject \/ AccAdmit

Scheduler ==
    \/ SchedWhile \/ SchedUpdate \/ SchedAddress \/ SchedFor \/ SchedCease
    \/ TcConnect \/ TcClear \/ TcSend \/ TcWait \/ TcReturn \/ SchedTally

Device == read \/ Write \/ exit

Next == Constructor \/ PeerConnect \/ Device \/ Acceptor \/ Handler \/ Scheduler

Spec == Init /\ [][Next]_vars

\* The Scheduler on its own cadence: a valid configuration, no callers from
\* outside, a stable address, any number of self-tests.
InitSched ==
    Start(ValidParams, [probes |-> 0, tns |-> TnsResponses \ {<<2, 4, 5, 6, 7, 8>>}])

\* The Acceptor has nothing to do: it waits in accept() for a connection
AcceptorWaits == apc \in {"l106", "dead", "done"} /\ backlog = <<>>

\* With no peer outside to block it in recv(), the Acceptor is through with a
\* queued self-test long before a sleep(20) of the Scheduler ends
SchedForSlept == AcceptorWaits /\ SchedFor

NextSched ==
    \/ Constructor
    \/ AccWhile \/ AccAccept \/ AccClassify \/ AccRecv \/ AccMute
    \/ SchedWhile \/ SchedUpdate \/ SchedAddress \/ SchedForSlept \/ SchedCease
    \/ TcConnect \/ TcClear \/ TcSend \/ TcWait \/ TcReturn \/ SchedTally

SchedSpec == InitSched /\ [][NextSched]_vars

\* The registration on its own: any answer of up to MaxAnswer bytes out of
\* AnswerBytes for the usual configuration, the usual answer for any valid
\* configuration.
AnswerBytes == 1..5

Answers == UNION {[1..n -> AnswerBytes] : n \in 0..MaxAnswer}

\* valid configurations, with the ends of the ranges of lines 38 and 45
TnsParams ==
    {[number |-> n, tns_pin |-> <<p>>, port |-> q] :
        n \in {Number1, Wide(0, 1), Wide(0, 256), Wide(1, 0), Wide(MaxNumberHi, 65535)},
        p \in {Pin1[1], 0, 256, MaxPin},
        q \in {DefaultPort, 1, 255, 65535}}

InitTns ==
    \E p \in TnsParams, d \in Answers :
        /\ p = ValidParams \/ d = <<2, 4, 1, 2, 3, 4>>
        /\ Start(p, [probes |-> 0, tns |-> {d}])

NextTns == Constructor \/ SchedWhile \/ SchedUpdate

TnsSpec == InitTns /\ [][NextTns]_vars

-----------------------------------------------------------------------------
\* Properties

\* The Acceptor is through with the connection it took from accept() and back
\* at the head of its loop
Through == apc = "l105" /\ client.id # 0

\* The pcs of the Scheduler inside test_connection (lines 241-258)
InTestConnection == spc \in {"l244", "l248", "l249", "l252", "l253"}

\* C1: at every moment the registry "clients" holds at most one entry, under
\* every interleaving of the Acceptor, the Session Handlers, the Scheduler
\* and the device calls.
C1_AtMostOneSession == Cardinality(DOMAIN clients) <= 1

\* A session is active and the Acceptor has turned a second call away.
C1_Witness ==
    /\ Cardinality(DOMAIN clients) = 1
    /\ apc = "l105"
    /\ client.busy
    /\ client.rejected

\* C2: a connection accepted while a session is active, and active until the
\* Acceptor is through with the connection, has been sent the reject and been
\* closed, and is not admitted; a recognised self-test is left aside.
C2_BusyRejects ==
    (/\ Through
     /\ client.during
     /\ DOMAIN clients # {}
     /\ ~(client.matched /\ data = selftest_packet))
        => /\ client.rejected
           /\ client.closed
           /\ ~client.admitted
           /\ client.id \notin DOMAIN hpc

\* C3: a connection from the known address whose first read is exactly the
\* self-test packet gets no session, no handler and no reject; when the
\* Acceptor is through with it the event has been set exactly once for it and
\* the connection is closed. The Acceptor does not die on it.
C3_SelftestMuted ==
    (client.matched /\ data = selftest_packet)
        => /\ apc \in {"l110", "l105"}
           /\ ~client.admitted
           /\ ~client.rejected
           /\ client.id \notin DOMAIN clients
           /\ client.id \notin DOMAIN hpc
           /\ apc = "l105" => /\ client.evsets = 1
                              /\ client.closed
                              /\ client.id \notin open

\* The Acceptor is through with a self-test packet that came from outside.
C3_Witness ==
    /\ apc = "l105"
    /\ client.matched
    /\ data = selftest_packet
    /\ client.from = "ext"

\* A step of the Scheduler that is a registration attempt which succeeds
RegistrationSucceeds == spc = "l181" /\ spc' = "l194" /\ update_tns_fail' = 0

\* C4: when a failed self-test brings the failure count to 6, the Scheduler
\* leaves the for loop at once, whatever the iteration, and its next two steps
\* are the loop test of line 178 and a registration attempt; no self-test
\* comes between.
C4_SixFailuresRegister ==
    [][/\ (test_connection_fail # BreakAt /\ test_connection_fail' = BreakAt)
              => (spc = "l219" /\ spc' = "l178")
       /\ (spc = "l178" /\ test_connection_fail = BreakAt /\ spc' # spc)
              => spc' = "l181"
       /\ (spc = "l181" /\ spc' # spc) => SchedUpdate]_vars

\* The sixth failure in a row came later than the sixth iteration of the for
\* loop, and the Scheduler is about to register.
C4_Witness ==
    /\ spc = "l178"
    /\ test_connection_fail = BreakAt
    /\ i > BreakAt

\* C5: with 12 or more failures counted no self-test is under way; the count
\* stays at 12 or above (12, then the sentinel 666) through every step but a
\* successful registration, which sets it to 0 with the address known, and a
\* count below 12 lets the next iteration of the for loop run a self-test.
C5_SuspendedUntilRegistered ==
    /\ [](InTestConnection => test_connection_fail < CeaseAt)
    /\ [][test_connection_fail >= CeaseAt
              => IF RegistrationSucceeds
                   THEN test_connection_fail' = 0 /\ ip_address' # None
                   ELSE test_connection_fail' >= CeaseAt]_vars
    /\ [][(spc = "l206" /\ test_connection_fail < CeaseAt /\ spc' # spc)
              => spc' = "l244"]_vars

\* Self-testing is suspended and a registration attempt has failed since.
C5_Witness ==
    /\ test_connection_fail = Suspended
    /\ spc = "l194"
    /\ update_tns_fail > 0

\* C6: whenever the Scheduler is inside test_connection, ip_address holds the
\* non-empty address of a registration that succeeded.
C6_ProbeKnowsAddress ==
    InTestConnection => (ip_address # None /\ ip_address[1] # <<>>)

\* test_connection has connected to the known address.
C6_Witness == spc = "l248" /\ ip_address = <<Addr1>>

\* C7: when test_connection finds the event set and returns True, the event
\* was not set by the Acceptor for the connection of an earlier self-test.
C7_NoStaleConfirmation == (spc = "l253" /\ ret) => ret_for # "old"

\* C8: exit() closes the listening socket and disconnects the session; once
\* it has been called accept() hands out no further connection, and the next
\* loop test of the Scheduler (line 178) ends the loop, so that no
\* registration attempt or self-test is started any more.
C8_ExitStopsService ==
    /\ [][(u_run /\ ~u_run') => (SERVER' = "closed" /\ ~connected')]_vars
    /\ [][~u_run => ~(apc = "l106" /\ apc' = "l108")]_vars
    /\ [][(~u_run /\ spc = "l178" /\ spc' # spc) => spc' = "done"]_vars

\* C9: every entry of the registry has a live Session Handler; a handler whose
\* relay raised goes on to the lines after the except clause like one whose
\* relay returned; and when a handler ends the end marker is the last marker
\* pushed, its socket is closed and its entry is gone from the registry.
C9_HandlerCleansUp ==
    /\ [](DOMAIN clients \subseteq DOMAIN hpc)
    /\ [][\A s \in DOMAIN hpc :
            /\ (s \in DOMAIN hpc' /\ hpc[s] \in {"relay", "l133"} /\ hpc'[s] # hpc[s])
                   => hpc'[s] \in {"l133", "l136"}
            /\ (s \in DOMAIN hpc' /\ hpc[s] = "l136" /\ hpc'[s] # hpc[s])
                   => (hpc'[s] = "l137" /\ s \notin open')
            /\ (s \in DOMAIN hpc' /\ hpc[s] = "l137" /\ hpc'[s] # hpc[s])
                   => (hpc'[s] = "l138" /\ rx_buffer' = Append(rx_buffer, ESC_Z))
            /\ s \notin DOMAIN hpc'
                   => /\ hpc[s] = "l138"
                      /\ markers' = ESC_Z
                      /\ s \notin open'
                      /\ s \notin DOMAIN clients']_vars

\* A session has ended, the slot is free again and a later call is admitted.
C9_Witness ==
    /\ markers = ESC_Z
    /\ ~connected
    /\ \E s \in DOMAIN clients : hpc[s] = "l128"

\* The configuration the constructor is meant to turn down (lines 37-50)
ConfigInvalid ==
    \/ NumberOutOfRange(params.number)
    \/ params.tns_pin = None
    \/ PinOutOfRange(params.tns_pin[1])

\* C10: with a node number or a pin out of range, or no pin configured, the
\* constructor does not raise, the Scheduler is never started, and once the
\* constructor is done the service listens with its Acceptor running.
C10_InvalidConfigStillServes ==
    ConfigInvalid => /\ ipc # "raised"
                     /\ spc = "off"
                     /\ ipc = "done" => (SERVER # "none" /\ apc # "off")

\* C11: every connection from a peer that the Acceptor is through with,
\* unless it came from the known address with exactly the self-test packet,
\* was treated as a call: admitted, or sent the reject.
C11_OthersAreCalls ==
    (Through /\ client.from = "ext" /\ ~(client.matched /\ data = selftest_packet))
        => (client.admitted \/ client.rejected)

\* C12: a connection from outside that carries the self-test packet, from an
\* address that is not the known one or while no address is known yet, never
\* sets the event and is not muted; when the Acceptor is through with it, it
\* has been admitted if line 116 found the line free, and sent the reject and
\* closed if it found the line busy.
C12_ForeignProbeIsCall ==
    (/\ client.from = "ext"
     /\ client.sent = "packet"
     /\ (client.addr = Foreign \/ ip_address = None))
        => /\ client.evsets = 0
           /\ apc \notin {"l109", "l110"}
           /\ Through => /\ client.admitted \/ client.rejected
                         /\ client.admitted => ~client.busy
                         /\ client.rejected => (client.busy /\ client.closed
                                                  /\ ~client.admitted)

\* The packet came from a foreign address while the own address was known, and
\* the connection was admitted as a call.
C12_Witness ==
    /\ Through
    /\ client.from = "ext"
    /\ client.sent = "packet"
    /\ client.addr = Foreign
    /\ ip_address # None
    /\ client.admitted

\* C13: right after a registration that succeeded, update_tns_fail is 0 and
\* ip_address is the address of the answer; a registration that succeeds with
\* the address already known leaves ip_address as it is, however often it is
\* repeated and whatever the count was.
C13_RegistrationIdempotent ==
    /\ [](tns_answer # None
            => (spc = "l194" /\ update_tns_fail = 0 /\ ip_address = tns_answer))
    /\ [][(spc = "l181" /\ tns_answer' # None /\ tns_answer' = ip_address)
            => (ip_address' = ip_address /\ update_tns_fail' = 0)]_vars

\* A registration has succeeded again, after a for loop that an earlier
\* success with the same address let run.
C13_Witness ==
    /\ spc = "l194"
    /\ tns_answer = <<Addr1>>
    /\ i > 0

\* C14: after update_tns_record has decoded the answer of the TNS: the answer
\* 02 04 01 02 03 04 is a success with the address "1.2.3.4"; an answer that
\* starts with 02 and has another length byte than 04 is a failure; an answer
\* that starts with another byte than 02 is a failure; a failure is counted,
\* leaves ip_address alone, and the Scheduler goes on to line 194.
C14_DecodeAnswer ==
    /\ spc \in {"off", "l178", "l181", "l194"}
    /\ spc = "l194" =>
         \A d \in limits.tns :
            /\ d = <<2, 4, 1, 2, 3, 4>>
                  => (tns_answer = <<Addr1>> /\ ip_address = <<Addr1>>
                        /\ Addr1 = <<"1", ".", "2", ".", "3", ".", "4">>)
            /\ (Len(d) >= 2 /\ d[1] = 2 /\ d[2] # 4)
                  => (tns_answer = None /\ ip_address = None /\ update_tns_fail > 0)
            /\ (Len(d) >= 1 /\ d[1] # 2)
                  => (tns_answer = None /\ ip_address = None /\ update_tns_fail > 0)

\* The answer with the wrong length byte has been turned down.
C14_Witness ==
    /\ spc = "l194"
    /\ limits.tns = {<<2, 5, 1, 2, 3, 4>>}
    /\ tns_answer = None

\* C15: the request update_tns_record builds has exactly 10 bytes: 01, 08, the
\* own number in 4 bytes, the pin in 2 bytes and the port in 2 bytes, each
\* with the low byte first; for number 12345678, pin 4321, port 2342 it is
\* 01 08 4E 61 BC 00 E1 10 26 09. Every registration attempt builds one.
C15_RequestBytes ==
    /\ spc = "l194" => qry # <<>>
    /\ qry # <<>> =>
         /\ Len(qry) = 10
         /\ \A k \in 1..Len(qry) : qry[k] \in 0..255
         /\ qry[1] = 1
         /\ qry[2] = 8
         /\ qry[3] + 256 * qry[4] = params.number.lo
         /\ qry[5] + 256 * qry[6] = params.number.hi
         /\ qry[7] + 256 * qry[8] = params.tns_pin[1]
         /\ qry[9] + 256 * qry[10] = params.port
         /\ params = ValidParams => qry = <<1, 8, 78, 97, 188, 0, 225, 16, 38, 9>>

\* The request for number 12345678, pin 4321, port 2342 has been built.
C15_Witness ==
    /\ spc = "l194"
    /\ params = [number |-> Wide(188, 24910), tns_pin |-> <<4321>>, port |-> 2342]
    /\ Len(qry) = 10

\* C16: while the service runs, the Acceptor thread has not ended on the
\* connection it was reading the possible self-test packet from (line 109).
C16_AcceptorSurvivesRecv == ~(apc = "dead" /\ u_run /\ client.matched)

\* C17: ip_address changes only in a registration attempt that succeeds, and
\* then to the address of the answer; a registration attempt that fails
\* leaves it as it was, and so does every other step of any thread.
C17_AddressOnlyByRegistration ==
    /\ [][ip_address' # ip_address
            => (spc = "l181" /\ tns_answer' # None /\ ip_address' = tns_answer')]_vars
    /\ [][(spc = "l181" /\ spc' = "l194" /\ tns_answer' = None)
            => ip_address' = ip_address]_vars

\* The address is known, and a session has ended and exit() has been called
\* since the service started.
C17_Witness ==
    /\ ip_address # None
    /\ markers = ESC_Z
    /\ ~u_run

\* C18: every marker appended to _rx_buffer is appended by a Session Handler,
\* the start marker at line 128 and the end marker at line 137, once each as
\* the handler passes; a start marker follows no marker or an end marker, an
\* end marker follows a start marker.
C18_MarkersAlternate ==
    [][Len(rx_buffer') = Len(rx_buffer) + 1
         => LET m == rx_buffer'[Len(rx_buffer')] IN
            /\ markers' = m
            /\ m = ESC_A => markers \in {"none", ESC_Z}
            /\ m = ESC_Z => markers = ESC_A
            /\ \E s \in DOMAIN hpc :
                  \/ m = ESC_A /\ hpc[s] = "l128" /\ hpc'[s] = "l130"
                  \/ m = ESC_Z /\ hpc[s] = "l137" /\ hpc'[s] = "l138"]_vars

\* A second session has pushed its start marker after the end marker of the
\* first.
C18_Witness == rx_buffer = <<ESC_A, ESC_Z, ESC_A>>

\* C19: whenever the Scheduler is about to make a registration attempt, the
\* failure count of the self-tests is one of 0..6 or the sentinel 666.
C19_CountAtRegistration ==
    spc = "l181" => (test_connection_fail \in 0..BreakAt
                        \/ test_connection_fail = Suspended)

\* A registration attempt is about to be made with self-testing suspended.
C19_Witness == spc = "l181" /\ test_connection_fail = Suspended

\* C20: when the Acceptor is about to compare the peer address of a connection
\* with self.ip_address (line 108), the constructor has created ip_address
\* (line 67) and selftest_event (line 70).
C20_InitialisedBeforeUse ==
    apc = "l108" => {"ip_address", "selftest_event"} \subseteq attrs

====
